---- MODULE Spec2Model ----
(***************************************************************************)
(* Model of the notebook 1_NLP_Text_Representation.ipynb: the module-level *)
(* objects nlp, stop_words and punctuations, the custom tokenizer          *)
(* spacy_tokenizer, and the cells that call it directly or through a       *)
(* CountVectorizer.                                                        *)
(*                                                                         *)
(* A Python str is modelled as the sequence of its Unicode code points, so *)
(* that str.lower(), the substring test `a in b` on strings and the        *)
(* ordering of strings are computed as Python computes them.               *)
(***************************************************************************)
EXTENDS Integers, Sequences, FiniteSets, TLC

\* ------------------------------------------------------------------ text
\* The printable ASCII characters 32..95 and 97..126 in code-point order
\* (96, the backtick, cannot be written in a TLA+ string literal).
AsciiLow == " !\"#$%&'()*+,-./0123456789:;<=>?@ABCDEFGHIJKLMNOPQRSTUVWXYZ[\\]^_"
AsciiHigh == "abcdefghijklmnopqrstuvwxyz{|}~"

\* ord(c) of Python for a one-character literal.
ord(c) ==
    IF c = "\n" THEN 10
    ELSE IF \E i \in 1..Len(AsciiLow) : SubSeq(AsciiLow, i, i) = c
    THEN 31 + (CHOOSE i \in 1..Len(AsciiLow) : SubSeq(AsciiLow, i, i) = c)
    ELSE 96 + (CHOOSE i \in 1..Len(AsciiHigh) : SubSeq(AsciiHigh, i, i) = c)

\* A string literal of the notebook as a Python str (its code points).
Str(s) == [i \in 1..Len(s) |-> ord(SubSeq(s, i, i))]

Range(f) == {f[i] : i \in DOMAIN f}

\* str.lower() on one code point: A-Z and the upper-case letters of Latin-1
\* move by 32, every other code point of the model's alphabet is unchanged.
lower_char(c) ==
    IF c \in (65..90) \cup (192..214) \cup (216..222) THEN c + 32 ELSE c

\* str.lower()
lower(s) == [i \in 1..Len(s) |-> lower_char(s[i])]

\* Python's `needle in hay` for two str: needle is a contiguous substring of
\* hay (the empty str is a substring of every str).
str_in(needle, hay) ==
    \E i \in 0..(Len(hay) - Len(needle)) : SubSeq(hay, i + 1, i + Len(needle)) = needle

\* Python's a < b on str: lexicographic by code point.
RECURSIVE str_lt(_, _)
str_lt(a, b) ==
    IF b = <<>> THEN FALSE
    ELSE IF a = <<>> THEN TRUE
    ELSE IF a[1] # b[1] THEN a[1] < b[1]
    ELSE str_lt(Tail(a), Tail(b))

\* --------------------------------------------------- module-level objects
\* string.punctuation ('!"#$%&\'()*+,-./:;<=>?@[\]^_`{|}~', printed by the
\* cell at line 296), a str of 32 characters.
string_punctuation ==
    Str("!\"#$%&'()*+,-./:;<=>?@[\\]^_") \o <<96>> \o Str("{|}~")

\* nlp.Defaults.stop_words, the set printed by the cell at line 277.
nlp_Defaults_stop_words == {
    Str("'d"), Str("'ll"), Str("'m"), Str("'re"), Str("'s"), Str("'ve"), Str("a"),
    Str("about"), Str("above"), Str("across"), Str("after"), Str("afterwards"),
    Str("again"), Str("against"), Str("all"), Str("almost"), Str("alone"), Str("along"),
    Str("already"), Str("also"), Str("although"), Str("always"), Str("am"), Str("among"),
    Str("amongst"), Str("amount"), Str("an"), Str("and"), Str("another"), Str("any"),
    Str("anyhow"), Str("anyone"), Str("anything"), Str("anyway"), Str("anywhere"),
    Str("are"), Str("around"), Str("as"), Str("at"), Str("back"), Str("be"), Str("became"),
    Str("because"), Str("become"), Str("becomes"), Str("becoming"), Str("been"),
    Str("before"), Str("beforehand"), Str("behind"), Str("being"), Str("below"),
    Str("beside"), Str("besides"), Str("between"), Str("beyond"), Str("both"),
    Str("bottom"), Str("but"), Str("by"), Str("ca"), Str("call"), Str("can"),
    Str("cannot"), Str("could"), Str("did"), Str("do"), Str("does"), Str("doing"),
    Str("done"), Str("down"), Str("due"), Str("during"), Str("each"), Str("eight"),
    Str("either"), Str("eleven"), Str("else"), Str("elsewhere"), Str("empty"),
    Str("enough"), Str("even"), Str("ever"), Str("every"), Str("everyone"),
    Str("everything"), Str("everywhere"), Str("except"), Str("few"), Str("fifteen"),
    Str("fifty"), Str("first"), Str("five"), Str("for"), Str("former"), Str("formerly"),
    Str("forty"), Str("four"), Str("from"), Str("front"), Str("full"), Str("further"),
    Str("get"), Str("give"), Str("go"), Str("had"), Str("has"), Str("have"), Str("he"),
    Str("hence"), Str("her"), Str("here"), Str("hereafter"), Str("hereby"), Str("herein"),
    Str("hereupon"), Str("hers"), Str("herself"), Str("him"), Str("himself"), Str("his"),
    Str("how"), Str("however"), Str("hundred"), Str("i"), Str("if"), Str("in"),
    Str("indeed"), Str("into"), Str("is"), Str("it"), Str("its"), Str("itself"),
    Str("just"), Str("keep"), Str("last"), Str("latter"), Str("latterly"), Str("least"),
    Str("less"), Str("made"), Str("make"), Str("many"), Str("may"), Str("me"),
    Str("meanwhile"), Str("might"), Str("mine"), Str("more"), Str("moreover"), Str("most"),
    Str("mostly"), Str("move"), Str("much"), Str("must"), Str("my"), Str("myself"),
    Str("n't"), Str("name"), Str("namely"), Str("neither"), Str("never"),
    Str("nevertheless"), Str("next"), Str("nine"), Str("no"), Str("nobody"), Str("none"),
    Str("noone"), Str("nor"), Str("not"), Str("nothing"), Str("now"), Str("nowhere"),
    Str("of"), Str("off"), Str("often"), Str("on"), Str("once"), Str("one"), Str("only"),
    Str("onto"), Str("or"), Str("other"), Str("others"), Str("otherwise"), Str("our"),
    Str("ours"), Str("ourselves"), Str("out"), Str("over"), Str("own"), Str("part"),
    Str("per"), Str("perhaps"), Str("please"), Str("put"), Str("quite"), Str("rather"),
    Str("re"), Str("really"), Str("regarding"), Str("same"), Str("say"), Str("see"),
    Str("seem"), Str("seemed"), Str("seeming"), Str("seems"), Str("serious"),
    Str("several"), Str("she"), Str("should"), Str("show"), Str("side"), Str("since"),
    Str("six"), Str("sixty"), Str("so"), Str("some"), Str("somehow"), Str("someone"),
    Str("something"), Str("sometime"), Str("sometimes"), Str("somewhere"), Str("still"),
    Str("such"), Str("take"), Str("ten"), Str("than"), Str("that"), Str("the"),
    Str("their"), Str("them"), Str("themselves"), Str("then"), Str("thence"), Str("there"),
    Str("thereafter"), Str("thereby"), Str("therefore"), Str("therein"), Str("thereupon"),
    Str("these"), Str("they"), Str("third"), Str("this"), Str("those"), Str("though"),
    Str("three"), Str("through"), Str("throughout"), Str("thru"), Str("thus"), Str("to"),
    Str("together"), Str("too"), Str("top"), Str("toward"), Str("towards"), Str("twelve"),
    Str("twenty"), Str("two"), Str("under"), Str("unless"), Str("until"), Str("up"),
    Str("upon"), Str("us"), Str("used"), Str("using"), Str("various"), Str("very"),
    Str("via"), Str("was"), Str("we"), Str("well"), Str("were"), Str("what"),
    Str("whatever"), Str("when"), Str("whence"), Str("whenever"), Str("where"),
    Str("whereafter"), Str("whereas"), Str("whereby"), Str("wherein"), Str("whereupon"),
    Str("wherever"), Str("whether"), Str("which"), Str("while"), Str("whither"),
    Str("who"), Str("whoever"), Str("whole"), Str("whom"), Str("whose"), Str("why"),
    Str("will"), Str("with"), Str("within"), Str("without"), Str("would"), Str("yet"),
    Str("you"), Str("your"), Str("yours"), Str("yourself"), Str("yourselves"),
    <<110, 8216, 116>>, <<110, 8217, 116>>, <<8216, 100>>, <<8216, 108, 108>>,
    <<8216, 109>>, <<8216, 114, 101>>, <<8216, 115>>, <<8216, 118, 101>>, <<8217, 100>>,
    <<8217, 108, 108>>, <<8217, 109>>, <<8217, 114, 101>>, <<8217, 115>>, <<8217, 118, 101>>
    }

\* ------------------------------------------------- the language pipeline
\* nlp = spacy.load("en_core_web_sm") is a pretrained third-party pipeline.
\* The model keeps the part of it the notebook relies on, as a fixed
\* function of the text: the segmentation of a text into tokens and the
\* lemma of each token.

is_space(c) == c \in {9, 10, 13, 32}

\* The characters the segmentation splits off the start or the end of a
\* chunk one at a time: , : ; ! ? ( ) [ ] { } < > _ # * & ' " and backtick.
AffixChars == Range(Str(",:;!?()[]{}<>_#*&'\"")) \cup {96}

\* The index at which the run of "." that ends chunk c starts (Len(c) + 1
\* when c does not end with ".").
RECURSIVE dots_start(_, _)
dots_start(c, k) ==
    IF k >= 1 /\ c[k] = 46 THEN dots_start(c, k - 1) ELSE k + 1

\* The tokens of one whitespace-free chunk: leading and trailing affix
\* characters are tokens of their own ("apple," gives "apple" and ","), a
\* trailing ellipsis of two or more "." is one token, and what is left is
\* one token ("./" stays whole: neither "." nor "/" is split off).
RECURSIVE split_affixes(_)
split_affixes(c) ==
    IF c = <<>> THEN <<>>
    ELSE IF Len(c) = 1 THEN <<c>>
    ELSE IF c[1] \in AffixChars THEN << <<c[1]>> >> \o split_affixes(Tail(c))
    ELSE IF c[Len(c)] \in AffixChars
    THEN split_affixes(SubSeq(c, 1, Len(c) - 1)) \o << <<c[Len(c)]>> >>
    ELSE LET k == dots_start(c, Len(c)) IN
         IF Len(c) - k + 1 >= 2
         THEN split_affixes(SubSeq(c, 1, k - 1)) \o <<SubSeq(c, k, Len(c))>>
         ELSE <<c>>

\* The last index of the run (of whitespace, or of non-whitespace) of text
\* s that starts at index i.
RECURSIVE run_end(_, _)
run_end(s, i) ==
    IF i < Len(s) /\ is_space(s[i + 1]) = is_space(s[i]) THEN run_end(s, i + 1) ELSE i

\* The token texts of text s from index i on. A single space after a token
\* belongs to that token and is no token; any other whitespace (a newline,
\* the further spaces of a run, whitespace at the start) is a token.
RECURSIVE segment(_, _)
segment(s, i) ==
    IF i > Len(s) THEN <<>>
    ELSE LET j == run_end(s, i)
             run == SubSeq(s, i, j)
             ws == IF i > 1 /\ s[i] = 32 THEN Tail(run) ELSE run
         IN  (IF is_space(s[i])
              THEN (IF ws = <<>> THEN <<>> ELSE <<ws>>)
              ELSE split_affixes(run)) \o segment(s, j + 1)

\* The lemmatizer on the words of the model's inputs: the inflected forms
\* the notebook shows ("eating" to "eat", "playing" to "play"), the forms
\* of "be", the pronoun "i" (lemma "I") and the plural "apples". Every
\* other token (base forms, proper nouns such as "Apples", punctuation,
\* whitespace) is its own lemma, case kept.
LemmaTable ==
    (Str("eating") :> Str("eat")) @@ (Str("playing") :> Str("play")) @@
    (Str("am") :> Str("be")) @@ (Str("is") :> Str("be")) @@
    (Str("i") :> Str("I")) @@ (Str("apples") :> Str("apple"))

\* Token.lemma_
lemma_(text) == IF text \in DOMAIN LemmaTable THEN LemmaTable[text] ELSE text

\* doc = nlp(sentence): the sequence of tokens of the text.
nlp(s) ==
    LET texts == segment(s, 1)
    IN  [k \in 1..Len(texts) |-> [text |-> texts[k], lemma_ |-> lemma_(texts[k])]]

\* ------------------------------------------------------------ variables
VARIABLES
    stop_words,     \* the set object nlp.Defaults.stop_words bound at line 277
    punctuations,   \* the str bound at line 296
    pc,             \* the next cell of the top-to-bottom run
    called,         \* spacy_tokenizer has been called directly
    repeated,       \* the latest direct call had the argument of the one before
    sentence,       \* the argument of the latest direct call
    doc,            \* its doc (line 332)
    lemmas,         \* its mytokens after line 338
    mytokens,       \* its return value (line 347)
    cv,             \* the CountVectorizer object
    sentences,      \* the list bound at line 407
    vectors,        \* the array bound at line 418, and again at line 854
    np_random,      \* numpy's global generator, seeded at line 77
    data,           \* the DataFrame bound at line 97
    X,              \* data['comment_text'] (line 528), then its 5% (line 553)
    y,              \* data['toxic'] (line 529), then its 5% (line 553)
    X_train,        \* the four results of the split at line 565
    X_test,
    y_train,
    y_test,
    X_train_vetcors,    \* the matrices bound at lines 627 and 628
    X_test_vectors,
    model,          \* the LogisticRegression bound at line 697, then 1000
    y_pred,         \* the predictions bound at line 708
    scores,         \* the values the evaluator cells have displayed
    tfidf_vector,   \* the TfidfVectorizer object bound at line 844
    X_train_vectors_tf, \* the matrices bound at lines 968 and 969
    X_test_vectors_tf,
    y_pred_tf,      \* the predictions bound at line 1031
    earlier         \* the file and the split of the run before a restart

\* The names the cells after line 418 bind.
run_vars == <<np_random, data, X, y, X_train, X_test, y_train, y_test, X_train_vetcors,
              X_test_vectors, model, y_pred, scores, tfidf_vector, X_train_vectors_tf,
              X_test_vectors_tf, y_pred_tf, earlier>>

vars == <<stop_words, punctuations, pc, called, repeated, sentence, doc, lemmas, mytokens,
          cv, sentences, vectors, run_vars>>

\* The module-level names spacy_tokenizer reads.
globals == [stop_words |-> stop_words, punctuations |-> punctuations]

\* ------------------------------------------------------ spacy_tokenizer
\* Line 338 without the call of lower().
lemmatize_no_lower(d) == [k \in 1..Len(d) |-> d[k].lemma_]

\* Line 338 with word.text for word.lemma_.
lemmatize_text(d) == [k \in 1..Len(d) |-> lower(d[k].text)]

\* line 338: mytokens = [word.lemma_.lower() for word in doc]
lemmatize(d) == [k \in 1..Len(d) |-> lower(d[k].lemma_)]

\* The condition with `or` for `and`.
keep_or(token, g) == token \notin g.stop_words \/ ~str_in(token, g.punctuations)

\* The condition with punctuations read as a set of characters.
keep_charset(token, g) ==
    token \notin g.stop_words /\ token \notin {<<c>> : c \in Range(g.punctuations)}

\* line 343, the condition of the comprehension:
\*   token not in stop_words and token not in punctuations
\* stop_words is a set (membership); punctuations is a str (substring).
keep(token, g) == token \notin g.stop_words /\ ~str_in(token, g.punctuations)

\* The elements of a sequence in order, each once (its first occurrence).
RECURSIVE unique(_)
unique(seq) ==
    IF seq = <<>> THEN <<>>
    ELSE LET front == SubSeq(seq, 1, Len(seq) - 1)
             last == seq[Len(seq)]
         IN  IF last \in Range(front) THEN unique(front) ELSE unique(front) \o <<last>>

\* The comprehension, followed by a removal of repeated tokens.
filter_tokens_unique(toks, g) ==
    LET test(token) == keep(token, g) IN unique(SelectSeq(toks, test))

\* The comprehension over mytokens[1:], which skips the first token.
filter_tokens_skip_first(toks, g) ==
    LET test(token) == keep(token, g)
    IN  IF toks = <<>> THEN <<>> ELSE SelectSeq(Tail(toks), test)

\* line 343: the filtering comprehension.
filter_tokens(toks, g) == LET test(token) == keep(token, g) IN SelectSeq(toks, test)

\* The function ending with `return mytokens or [sentence]`.
spacy_tokenizer_or_sentence(s, g) ==
    LET toks == SelectSeq(lemmatize(nlp(s)), LAMBDA token : keep(token, g))
    IN  IF toks = <<>> THEN <<s>> ELSE toks

\* spacy_tokenizer(sentence), lines 328-347, run with the module-level
\* objects g.
spacy_tokenizer(s, g) == filter_tokens(lemmatize(nlp(s)), g)

\* A call that adds the tokens it returns to the set stop_words.
globals_after_call_adding(s, g) ==
    [g EXCEPT !.stop_words = @ \cup Range(spacy_tokenizer(s, g))]

\* What a call leaves in the module-level objects: the function assigns
\* only its locals doc and mytokens.
globals_after_call(s, g) == g

\* ------------------------------------------------------ CountVectorizer
\* A vectorizer built with lowercase=False.
preprocess_as_given(d) == d

\* CountVectorizer(tokenizer=spacy_tokenizer) keeps the default
\* lowercase=True: each document is lower-cased before the tokenizer runs.
preprocess(d) == lower(d)

\* The analyzer on each document of a corpus in turn: the token lists, and
\* the module-level objects after the calls.
RECURSIVE analyze_corpus(_, _)
analyze_corpus(docs, g) ==
    IF docs = <<>> THEN [tokens |-> <<>>, globals |-> g]
    ELSE LET text == preprocess(Head(docs))
             rest == analyze_corpus(Tail(docs), globals_after_call(text, g))
         IN  [tokens |-> <<spacy_tokenizer(text, g)>> \o rest.tokens,
              globals |-> rest.globals]

\* The distinct terms of a sequence of token lists.
terms_of(token_lists) == UNION {Range(token_lists[d]) : d \in DOMAIN token_lists}

\* sorted(terms): ascending in Python's str order.
RECURSIVE sorted_terms(_)
sorted_terms(S) ==
    IF S = {} THEN <<>>
    ELSE LET m == CHOOSE x \in S : \A o \in S \ {x} : str_lt(x, o)
         IN  <<m>> \o sorted_terms(S \ {m})

\* The concatenation of a sequence of token lists.
RECURSIVE flatten(_)
flatten(token_lists) ==
    IF token_lists = <<>> THEN <<>> ELSE Head(token_lists) \o flatten(Tail(token_lists))

\* The terms in the order fit first sees them, without the sort.
feature_names_first_seen(token_lists) == unique(flatten(token_lists))

\* get_feature_names_out() after a fit: the terms in column order. fit
\* collects the terms and sorts them.
feature_names(token_lists) == sorted_terms(terms_of(token_lists))

\* A vocabulary that numbers the columns from 1.
vocabulary_of_from_one(names) ==
    [t \in Range(names) |-> CHOOSE j \in DOMAIN names : names[j] = t]

\* vocabulary_: term -> column index, from 0.
vocabulary_of(names) ==
    [t \in Range(names) |-> (CHOOSE j \in DOMAIN names : names[j] = t) - 1]

\* The number of occurrences of term t in a token list.
count_of(t, toks) == Cardinality({k \in DOMAIN toks : toks[k] = t})

\* A matrix without the rows of the documents that have no token.
count_matrix_skipping_empty(token_lists, names) ==
    LET kept == SelectSeq(token_lists, LAMBDA toks : toks # <<>>)
    IN  [d \in DOMAIN kept |-> [j \in DOMAIN names |-> count_of(names[j], kept[d])]]

\* The document-term matrix (toarray()): one row per document, one column
\* per term of the vocabulary; a token outside the vocabulary is in no cell.
count_matrix(token_lists, names) ==
    [d \in DOMAIN token_lists |->
        [j \in DOMAIN names |-> count_of(names[j], token_lists[d])]]

\* The sum of a row.
RECURSIVE sum(_)
sum(row) == IF row = <<>> THEN 0 ELSE Head(row) + sum(Tail(row))

\* get_feature_names_out() of a fitted vectorizer: the terms by column.
names_of(vocabulary) ==
    [j \in 1..Cardinality(DOMAIN vocabulary) |->
        CHOOSE t \in DOMAIN vocabulary : vocabulary[t] = j - 1]

\* A fit that keeps the terms of the fit before it.
fit_vocabulary_keeping(vocabulary, token_lists) ==
    vocabulary_of(sorted_terms(DOMAIN vocabulary \cup terms_of(token_lists)))

\* vocabulary_ after fit on a vectorizer whose vocabulary_ was vocabulary:
\* fit builds a new dict from the corpus it is given.
fit_vocabulary(vocabulary, token_lists) == vocabulary_of(feature_names(token_lists))

\* A transform that gives the terms it has not seen new columns.
transform_vocabulary_adding(vocabulary, token_lists) ==
    LET new == sorted_terms(terms_of(token_lists) \ DOMAIN vocabulary)
    IN  vocabulary_of(names_of(vocabulary) \o new)

\* vocabulary_ after transform: transform looks terms up and adds none.
transform_vocabulary(vocabulary, token_lists) == vocabulary

\* vectorizer.fit_transform(raw_documents): the vectorizer after the call,
\* the matrix, the module-level objects after the tokenizer calls, and
\* whether the call returned (it raises ValueError on an empty vocabulary).
fit_transform(vectorizer, raw_documents, g) ==
    LET run == analyze_corpus(raw_documents, g)
        vocabulary == fit_vocabulary(vectorizer.vocabulary_, run.tokens)
    IN  [ok |-> DOMAIN vocabulary # {},
         vectorizer |-> [made |-> TRUE, fitted |-> TRUE, vocabulary_ |-> vocabulary],
         matrix |-> count_matrix(run.tokens, names_of(vocabulary)),
         globals |-> run.globals]

\* vectorizer.transform(raw_documents) on a fitted vectorizer.
transform(vectorizer, raw_documents, g) ==
    LET run == analyze_corpus(raw_documents, g)
        vocabulary == transform_vocabulary(vectorizer.vocabulary_, run.tokens)
    IN  [vectorizer |-> [vectorizer EXCEPT !.vocabulary_ = vocabulary],
         matrix |-> count_matrix(run.tokens, names_of(vocabulary)),
         globals |-> run.globals]

\* ------------------------------------------------------ TfidfVectorizer
\* 1000 * (ln((1 + n) / (1 + df)) + 1), rounded, at [n][df]: the smoothed
\* inverse document frequency of a term in df of n documents.
IdfTable ==
    << <<1000>>,
       <<1405, 1000>>,
       <<1693, 1288, 1000>>,
       <<1916, 1511, 1223, 1000>>,
       <<2099, 1693, 1405, 1182, 1000>>,
       <<2253, 1847, 1560, 1336, 1154, 1000>>,
       <<2386, 1981, 1693, 1470, 1288, 1134, 1000>>,
       <<2504, 2099, 1811, 1588, 1405, 1251, 1118, 1000>> >>

\* The number of documents term t occurs in.
document_frequency(token_lists, t) ==
    Cardinality({d \in DOMAIN token_lists : count_of(t, token_lists[d]) > 0})

\* idf_ after a fit: one weight per column.
idf_of(token_lists, names) ==
    [j \in DOMAIN names |->
        IdfTable[Len(token_lists)][document_frequency(token_lists, names[j])]]

\* A row scaled to sum 1 (norm='l1'), squared.
l1_normalized(row) ==
    [j \in DOMAIN row |->
        [num |-> row[j] * row[j], den |-> IF sum(row) = 0 THEN 1 ELSE sum(row) * sum(row)]]

\* A row scaled to Euclidean length 1 (the default norm='l2'). A weight is
\* kept as its square, the fraction num/den; a row of zeros stays zeros.
l2_normalized(row) ==
    LET squares == [j \in DOMAIN row |-> row[j] * row[j]]
    IN  [j \in DOMAIN row |->
            [num |-> squares[j], den |-> IF sum(squares) = 0 THEN 1 ELSE sum(squares)]]

\* The TF-IDF matrix: the count of a term times the term's idf, each row
\* normalized.
tfidf_matrix(token_lists, names, idf_) ==
    [d \in DOMAIN token_lists |->
        l2_normalized([j \in DOMAIN names |-> count_of(names[j], token_lists[d]) * idf_[j]])]

\* tfidf_vector.fit_transform(raw_documents): a TfidfVectorizer analyzes
\* and learns its vocabulary as a CountVectorizer does.
tfidf_fit_transform(vectorizer, raw_documents, g) ==
    LET run == analyze_corpus(raw_documents, g)
        vocabulary == fit_vocabulary(vectorizer.vocabulary_, run.tokens)
        idf_ == idf_of(run.tokens, names_of(vocabulary))
    IN  [ok |-> DOMAIN vocabulary # {},
         vectorizer |-> [made |-> TRUE, fitted |-> TRUE, vocabulary_ |-> vocabulary,
                         idf_ |-> idf_],
         matrix |-> tfidf_matrix(run.tokens, names_of(vocabulary), idf_),
         globals |-> run.globals]

\* A transform that fits the vectorizer again, on the documents it is given.
tfidf_transform_refitting(vectorizer, raw_documents, g) ==
    LET call == tfidf_fit_transform(vectorizer, raw_documents, g)
    IN  [vectorizer |-> call.vectorizer, matrix |-> call.matrix, globals |-> call.globals]

\* tfidf_vector.transform(raw_documents) on a fitted vectorizer.
tfidf_transform(vectorizer, raw_documents, g) ==
    LET run == analyze_corpus(raw_documents, g)
        vocabulary == transform_vocabulary(vectorizer.vocabulary_, run.tokens)
    IN  [vectorizer |-> [vectorizer EXCEPT !.vocabulary_ = vocabulary],
         matrix |-> tfidf_matrix(run.tokens, names_of(vocabulary), vectorizer.idf_),
         globals |-> run.globals]

\* --------------------------------------------------- LogisticRegression
\* The number of columns of a matrix.
n_columns(matrix) == IF matrix = <<>> THEN 0 ELSE Len(matrix[1])

\* LogisticRegression(...): an estimator not yet fitted.
LogisticRegression == [made |-> TRUE, fitted |-> FALSE, n_features_in_ |-> 0, fit_X |-> <<>>]

\* model.fit(matrix, labels): the estimator after the call, and whether the
\* call returned (it raises ValueError when the rows and the labels differ
\* in number and when the labels hold one class only). The coefficients it
\* learns are a function of fit_X and the labels.
fit(estimator, matrix, labels) ==
    [ok |-> Len(matrix) = Len(labels) /\ Cardinality(Range(labels)) >= 2,
     estimator |-> [made |-> TRUE, fitted |-> TRUE, n_features_in_ |-> n_columns(matrix),
                    fit_X |-> matrix]]

\* model.predict(matrix) returns a label for each row; it raises on an
\* estimator that is not fitted and on a matrix of another width.
predict_returns(estimator, matrix) ==
    estimator.fitted /\ n_columns(matrix) = estimator.n_features_in_

\* ---------------------------------------------------------- sklearn.metrics
\* The rows with true label a and predicted label b.
confusion(y_true, y_hat, a, b) ==
    Cardinality({i \in DOMAIN y_true : y_true[i] = a /\ y_hat[i] = b})

\* A ratio whose zero denominator raises ZeroDivisionError.
ratio_raising(num, den) ==
    IF den = 0 THEN [raised |-> TRUE, num |-> 0, den |-> 1]
    ELSE [raised |-> FALSE, num |-> num, den |-> den]

\* A ratio of the evaluators: with their default zero_division="warn" a
\* zero denominator gives 0.0 and a warning, no exception.
ratio(num, den) ==
    IF den = 0 THEN [raised |-> FALSE, num |-> 0, den |-> 1]
    ELSE [raised |-> FALSE, num |-> num, den |-> den]

\* metrics.accuracy_score(y_true, y_pred)
accuracy_score(y_true, y_hat) ==
    ratio(Cardinality({i \in DOMAIN y_true : y_true[i] = y_hat[i]}), Len(y_true))

\* Precision, recall and F1 of class c.
precision_of(y_true, y_hat, c) ==
    ratio(confusion(y_true, y_hat, c, c),
          Cardinality({i \in DOMAIN y_hat : y_hat[i] = c}))
recall_of(y_true, y_hat, c) ==
    ratio(confusion(y_true, y_hat, c, c),
          Cardinality({i \in DOMAIN y_true : y_true[i] = c}))
f1_of(y_true, y_hat, c) ==
    ratio(2 * confusion(y_true, y_hat, c, c),
          Cardinality({i \in DOMAIN y_hat : y_hat[i] = c})
              + Cardinality({i \in DOMAIN y_true : y_true[i] = c}))

\* metrics.precision_score(y_true, y_pred), metrics.recall_score(y_true,
\* y_pred): of the positive class 1.
precision_score(y_true, y_hat) == precision_of(y_true, y_hat, 1)
recall_score(y_true, y_hat) == recall_of(y_true, y_hat, 1)

\* classification_report(y_true, y_pred): precision, recall and F1 of each
\* class in the true or the predicted labels.
classification_report(y_true, y_hat) ==
    LET labels == Range(y_true) \cup Range(y_hat)
        rows == [c \in labels |->
                    [precision |-> precision_of(y_true, y_hat, c),
                     recall |-> recall_of(y_true, y_hat, c),
                     f1 |-> f1_of(y_true, y_hat, c)]]
    IN  [raised |-> \E c \in labels :
                        rows[c].precision.raised \/ rows[c].recall.raised
                            \/ rows[c].f1.raised,
         rows |-> rows]

\* ----------------------------------------------------- train_test_split
\* np.random.seed(42) (line 77) and random_state=42 (line 554).
RandomSeed == 42

\* The test_size arguments of lines 554 and 565, in percent.
TestPercent553 == 95
TestPercent565 == 20

\* A generator: its seed and the number of draws made from it. What a draw
\* returns is a function of the two.
seeded(n) == [seeded |-> TRUE, seed |-> n, draws |-> 0]
advance(rng) == [rng EXCEPT !.draws = @ + 1]

\* rng.permutation(m): an arrangement of 1..m fixed by the generator's state.
permutation(rng, m) ==
    IF m = 0 THEN <<>>
    ELSE LET k == (rng.seed + rng.draws) % m
         IN  [i \in 1..m |-> ((i - 1 + k) % m) + 1]

\* seq.take(perm)
take(seq, perm) == [i \in DOMAIN perm |-> seq[perm[i]]]

\* The positions of the rows of class c, ascending.
class_indices(labels, c) ==
    SelectSeq([i \in DOMAIN labels |-> i], LAMBDA i : labels[i] = c)

\* The classes of a label sequence (np.unique).
classes_of(labels) == Range(labels)

\* The number of rows of class c drawn when n_draws rows are drawn from
\* class counts in proportion: the floor of the share, and the row left
\* over goes to the class with the larger remainder, a tie to the class
\* the generator picks.
approximate_mode(counts, n_draws, rng) ==
    LET total == counts[0] + counts[1]
        floored == [c \in {0, 1} |-> (counts[c] * n_draws) \div total]
        remainder == [c \in {0, 1} |-> (counts[c] * n_draws) % total]
        need_to_add == n_draws - floored[0] - floored[1]
        pick == IF remainder[0] > remainder[1] THEN 0
                ELSE IF remainder[1] > remainder[0] THEN 1
                ELSE (rng.seed + rng.draws) % 2
    IN  IF need_to_add = 0 THEN [n |-> floored, rng |-> rng]
        ELSE [n |-> [floored EXCEPT ![pick] = @ + 1], rng |-> advance(rng)]

\* train_test_split(X, y, test_size=percent/100, stratify=y) on a generator:
\* the positions of the train rows and of the test rows, the generator
\* after the call, and whether the call returned (it raises ValueError on
\* an empty train set, on a class with one row, and on a part with fewer
\* rows than classes).
train_test_split(labels, percent, rng) ==
    LET n_samples == Len(labels)
        n_test == (n_samples * percent + 99) \div 100
        n_train == n_samples - n_test
        counts == [c \in {0, 1} |-> Len(class_indices(labels, c))]
        n_classes == Cardinality(classes_of(labels))
        raised == \/ n_train = 0
                  \/ \E c \in classes_of(labels) : counts[c] < 2
                  \/ n_train < n_classes
                  \/ n_test < n_classes
        n_i == approximate_mode(counts, n_train, rng)
        rng0 == n_i.rng
        perm0 == take(class_indices(labels, 0), permutation(rng0, counts[0]))
        rng1 == advance(rng0)
        perm1 == take(class_indices(labels, 1), permutation(rng1, counts[1]))
        rng2 == advance(rng1)
        train == SubSeq(perm0, 1, n_i.n[0]) \o SubSeq(perm1, 1, n_i.n[1])
        test == SubSeq(perm0, n_i.n[0] + 1, counts[0])
                \o SubSeq(perm1, n_i.n[1] + 1, counts[1])
        rng3 == advance(rng2)
    IN  IF raised THEN [ok |-> FALSE, train |-> <<>>, test |-> <<>>, rng |-> rng]
        ELSE [ok |-> TRUE,
              train |-> take(train, permutation(rng2, Len(train))),
              test |-> take(test, permutation(rng3, Len(test))),
              rng |-> advance(rng3)]

\* ---------------------------------------------------------------- inputs
\* The literals of the notebook.
Sentence368 == Str("I am eating apple, I like apple\"")
Sentence1 == Str("I am eating apple, I like apple")
Sentence2 == Str("I am playing cricket")

\* The chunks the other input texts are built from: a stop word, an
\* inflected word, a base form, a proper noun with a trailing comma, and a
\* chunk of punctuation that is a substring of punctuations.
Chunks == <<Str("I"), Str("eating"), Str("apple"), Str("Apple,"), Str("./")>>

\* The longest input text, in chunks.
MaxWords == 2

\* The texts of exactly n chunks, joined by single spaces.
RECURSIVE texts_of(_)
texts_of(n) ==
    IF n = 0 THEN {<<>>}
    ELSE IF n = 1 THEN Range(Chunks)
    ELSE {t \o <<32>> \o c : t \in texts_of(n - 1), c \in Range(Chunks)}

\* The input texts: the empty str, the literals, the chunk texts, and texts
\* with an ellipsis, with a newline and with two spaces.
Texts ==
    UNION {texts_of(n) : n \in 0..MaxWords}
    \cup {Sentence368, Sentence1, Sentence2, Str("I like apple..."),
          Str("apple\nlike"), Str("Apple  apple")}

\* The number of rows of the CSV file, and of a longer one.
DataRows == 120
MoreRows == 200

\* The comment texts of the file's rows, in rotation.
DataTexts == <<Sentence1, Sentence2, Str("Apples"), Str("I"), Str("I like cricket"),
               Str("I like apple...")>>

\* A file: row i has the text at place i + offset of the rotation, and is
\* toxic when i is a multiple of period (never when period is 0).
dataset(rows, offset, period) ==
    [i \in 1..rows |->
        [index |-> i - 1,
         comment_text |-> DataTexts[((i - 1 + offset) % Len(DataTexts)) + 1],
         toxic |-> IF period > 0 /\ i % period = 0 THEN 1 ELSE 0]]

\* The files read_csv may find: a third of the rows toxic, at every place
\* of the rotation; a sixth of the rows toxic; no row toxic; and the longer
\* file with a fifth of the rows toxic.
Datasets ==
    {dataset(DataRows, offset, 3) : offset \in 0..(Len(DataTexts) - 1)}
        \cup {dataset(DataRows, 0, 6), dataset(DataRows, 0, 0), dataset(MoreRows, 0, 5)}

\* ------------------------------------------------------------------ Init
\* No cell after line 418 has run.
Unbound ==
    /\ np_random = [seeded |-> FALSE, seed |-> 0, draws |-> 0]
    /\ data = <<>>
    /\ X = <<>>
    /\ y = <<>>
    /\ X_train = <<>>
    /\ X_test = <<>>
    /\ y_train = <<>>
    /\ y_test = <<>>
    /\ X_train_vetcors = <<>>
    /\ X_test_vectors = <<>>
    /\ model = [made |-> FALSE, fitted |-> FALSE, n_features_in_ |-> 0, fit_X |-> <<>>]
    /\ y_pred = <<>>
    /\ scores = <<>>
    /\ tfidf_vector = [made |-> FALSE, fitted |-> FALSE, vocabulary_ |-> <<>>,
                       idf_ |-> <<>>]
    /\ X_train_vectors_tf = <<>>
    /\ X_test_vectors_tf = <<>>
    /\ y_pred_tf = <<>>

\* No run came before this one.
NoEarlierRun ==
    [bound |-> FALSE, data |-> <<>>, X |-> <<>>, X_train |-> <<>>, X_test |-> <<>>,
     y_train |-> <<>>, y_test |-> <<>>]

\* The tokenizer section run on its own: lines 259-347 have run.
Init ==
    /\ Unbound
    /\ earlier = NoEarlierRun
    /\ stop_words = nlp_Defaults_stop_words
    /\ punctuations = string_punctuation
    /\ pc = "cell_368"
    /\ called = FALSE
    /\ repeated = FALSE
    /\ sentence = <<>>
    /\ doc = <<>>
    /\ lemmas = <<>>
    /\ mytokens = <<>>
    /\ cv = [made |-> FALSE, fitted |-> FALSE, vocabulary_ |-> <<>>]
    /\ sentences = <<>>
    /\ vectors = <<>>

\* --------------------------------------------------------------- actions
\* A direct call spacy_tokenizer(s): its locals, its return value, and the
\* module-level objects after it.
DirectCall(s) ==
    /\ called' = TRUE
    /\ repeated' = (called /\ s = sentence)
    /\ sentence' = s
    /\ doc' = nlp(s)
    /\ lemmas' = lemmatize(doc')
    /\ mytokens' = spacy_tokenizer(s, globals)
    /\ stop_words' = globals_after_call(s, globals).stop_words
    /\ punctuations' = globals_after_call(s, globals).punctuations

\* spacy_tokenizer called on any text, at any point of the run.
Call ==
    \E s \in Texts :
        /\ DirectCall(s)
        /\ UNCHANGED <<pc, cv, sentences, vectors, run_vars>>

\* The cell at line 368: spacy_tokenizer('I am eating apple, I like apple"')
Cell368 ==
    /\ pc = "cell_368"
    /\ DirectCall(Sentence368)
    /\ pc' = "cell_397"
    /\ UNCHANGED <<cv, sentences, vectors, run_vars>>

\* The cells at lines 397 and 407: cv = CountVectorizer(tokenizer=
\* spacy_tokenizer) and sentences = [...]
Cell397 ==
    /\ pc = "cell_397"
    /\ cv' = [made |-> TRUE, fitted |-> FALSE, vocabulary_ |-> <<>>]
    /\ sentences' = <<Sentence1, Sentence2>>
    /\ pc' = "cell_418"
    /\ UNCHANGED <<stop_words, punctuations, called, repeated, sentence, doc, lemmas,
                   mytokens, vectors, run_vars>>

\* The cell at line 418: vectors = cv.fit_transform(sentences).toarray()
Cell418 ==
    /\ pc = "cell_418"
    /\ LET run == analyze_corpus(sentences, globals)
           names == feature_names(run.tokens)
       IN  /\ cv' = [made |-> TRUE, fitted |-> TRUE, vocabulary_ |-> vocabulary_of(names)]
           /\ vectors' = count_matrix(run.tokens, names)
           /\ stop_words' = run.globals.stop_words
           /\ punctuations' = run.globals.punctuations
    /\ pc' = "cell_528"
    /\ UNCHANGED <<called, repeated, sentence, doc, lemmas, mytokens, sentences, run_vars>>

Next == Call \/ Cell368 \/ Cell397 \/ Cell418

Spec == Init /\ [][Next]_vars

\* ------------------------------------------------- the run from the top
\* The names of the tokenizer section and of the example cells.
tokenizer_vars == <<stop_words, punctuations, called, repeated, sentence, doc, lemmas,
                    mytokens>>
example_vars == <<sentences, vectors>>
count_vars == <<X_train_vetcors, X_test_vectors, y_pred>>
tf_vars == <<tfidf_vector, X_train_vectors_tf, X_test_vectors_tf, y_pred_tf>>
split_vars == <<X_train, X_test, y_train, y_test>>

\* Before the first cell of a run of all cells in order.
RunInit ==
    /\ Unbound
    /\ earlier = NoEarlierRun
    /\ stop_words = nlp_Defaults_stop_words
    /\ punctuations = string_punctuation
    /\ pc = "cell_77"
    /\ called = FALSE
    /\ repeated = FALSE
    /\ sentence = <<>>
    /\ doc = <<>>
    /\ lemmas = <<>>
    /\ mytokens = <<>>
    /\ cv = [made |-> FALSE, fitted |-> FALSE, vocabulary_ |-> <<>>]
    /\ sentences = <<>>
    /\ vectors = <<>>

\* A first cell that seeds nothing: the generator starts from the entropy
\* of the operating system, one state or another.
Cell77_from_entropy ==
    /\ pc = "cell_77"
    /\ np_random' \in {seeded(RandomSeed), seeded(RandomSeed + 1)}
    /\ pc' = "cell_97"
    /\ UNCHANGED <<earlier, tokenizer_vars, cv, example_vars, data, X, y, split_vars,
                   count_vars, model, scores, tf_vars>>

\* The cell at line 77: np.random.seed(42)
Cell77 ==
    /\ pc = "cell_77"
    /\ np_random' = seeded(RandomSeed)
    /\ pc' = "cell_97"
    /\ UNCHANGED <<earlier, tokenizer_vars, cv, example_vars, data, X, y, split_vars, count_vars,
                   model, scores, tf_vars>>

\* The load inside a try block whose handler passes: the run goes on with
\* data not bound.
Cell97_continuing ==
    /\ pc = "cell_97"
    /\ \/ \E file \in Datasets : data' = file
       \/ data' = data
    /\ pc' = "cell_368"
    /\ UNCHANGED <<earlier, tokenizer_vars, cv, example_vars, np_random, X, y, split_vars,
                   count_vars, model, scores, tf_vars>>

\* The cell at line 97: data = pd.read_csv(...). The call returns the rows
\* of the file, or raises (no file at the path) and the run stops.
Cell97 ==
    /\ pc = "cell_97"
    /\ \/ \E file \in Datasets : data' = file /\ pc' = "cell_368"
       \/ data' = data /\ pc' = "error"
    /\ UNCHANGED <<earlier, tokenizer_vars, cv, example_vars, np_random, X, y, split_vars,
                   count_vars, model, scores, tf_vars>>

\* A column of the frame, with the frame's index.
column(frame, name) ==
    [i \in DOMAIN frame |-> [index |-> frame[i].index, value |-> frame[i][name]]]

\* The values of a column.
values(series) == [i \in DOMAIN series |-> series[i].value]

\* The cell at lines 528-529: X = data['comment_text']; y = data['toxic']
Cell528 ==
    /\ pc = "cell_528"
    /\ X' = column(data, "comment_text")
    /\ y' = column(data, "toxic")
    /\ pc' = "cell_553"
    /\ UNCHANGED <<earlier, tokenizer_vars, cv, example_vars, np_random, data, split_vars,
                   count_vars, model, scores, tf_vars>>

\* The cell at lines 553-555: X, X_unused, y, y_unused = train_test_split(X,
\* y, test_size=0.95, stratify=y, random_state=42), on a generator of its
\* own.
Cell553 ==
    /\ pc = "cell_553"
    /\ LET split == train_test_split(values(y), TestPercent553, seeded(RandomSeed))
       IN  IF split.ok
           THEN /\ X' = take(X, split.train)
                /\ y' = take(y, split.train)
                /\ pc' = "cell_565"
           ELSE /\ UNCHANGED <<X, y>>
                /\ pc' = "error"
    /\ UNCHANGED <<earlier, tokenizer_vars, cv, example_vars, np_random, data, split_vars,
                   count_vars, model, scores, tf_vars>>

\* The cell at line 565: X_train, X_test, y_train, y_test =
\* train_test_split(X, y, test_size=0.2, stratify=y), on numpy's global
\* generator.
Cell565 ==
    /\ pc = "cell_565"
    /\ LET split == train_test_split(values(y), TestPercent565, np_random)
       IN  IF split.ok
           THEN /\ X_train' = take(X, split.train)
                /\ X_test' = take(X, split.test)
                /\ y_train' = take(y, split.train)
                /\ y_test' = take(y, split.test)
                /\ np_random' = split.rng
                /\ pc' = "cell_627"
           ELSE /\ UNCHANGED <<split_vars, np_random>>
                /\ pc' = "error"
    /\ UNCHANGED <<earlier, tokenizer_vars, cv, example_vars, data, X, y, count_vars, model,
                   scores, tf_vars>>

\* Line 627: X_train_vetcors = cv.fit_transform(X_train)
Cell627 ==
    /\ pc = "cell_627"
    /\ LET call == fit_transform(cv, values(X_train), globals)
       IN  /\ stop_words' = call.globals.stop_words
           /\ punctuations' = call.globals.punctuations
           /\ IF call.ok
              THEN /\ cv' = call.vectorizer
                   /\ X_train_vetcors' = call.matrix
                   /\ pc' = "cell_628"
              ELSE /\ UNCHANGED <<cv, X_train_vetcors>>
                   /\ pc' = "error"
    /\ UNCHANGED <<earlier, called, repeated, sentence, doc, lemmas, mytokens, example_vars,
                   np_random, data, X, y, split_vars, X_test_vectors, y_pred, model,
                   scores, tf_vars>>

\* Line 628, in the same cell: X_test_vectors = cv.transform(X_test)
Cell628 ==
    /\ pc = "cell_628"
    /\ LET call == transform(cv, values(X_test), globals)
       IN  /\ stop_words' = call.globals.stop_words
           /\ punctuations' = call.globals.punctuations
           /\ cv' = call.vectorizer
           /\ X_test_vectors' = call.matrix
    /\ pc' = "cell_697"
    /\ UNCHANGED <<earlier, called, repeated, sentence, doc, lemmas, mytokens, example_vars,
                   np_random, data, X, y, split_vars, X_train_vetcors, y_pred, model,
                   scores, tf_vars>>

\* The cell at lines 697-698: model = LogisticRegression(max_iter=1000);
\* model.fit(X_train_vetcors, y_train). When fit raises, model stays bound
\* to the estimator not fitted and the run stops.
Cell697 ==
    /\ pc = "cell_697"
    /\ LET call == fit(LogisticRegression, X_train_vetcors, values(y_train))
       IN  IF call.ok
           THEN model' = call.estimator /\ pc' = "cell_708"
           ELSE model' = LogisticRegression /\ pc' = "error"
    /\ UNCHANGED <<earlier, tokenizer_vars, cv, example_vars, np_random, data, X, y, split_vars,
                   count_vars, scores, tf_vars>>

\* The cell at line 708: y_pred = model.predict(X_test_vectors)
Cell708 ==
    /\ pc = "cell_708"
    /\ IF predict_returns(model, X_test_vectors)
       THEN /\ y_pred' \in [DOMAIN X_test_vectors -> {0, 1}]
            /\ pc' = "cell_729"
       ELSE /\ y_pred' = y_pred
            /\ pc' = "error"
    /\ UNCHANGED <<earlier, tokenizer_vars, cv, example_vars, np_random, data, X, y, split_vars,
                   X_train_vetcors, X_test_vectors, model, scores, tf_vars>>

\* An evaluator cell: the value is displayed under the cell's name, or the
\* evaluator raises and the run stops.
Evaluate(cell, result, next) ==
    /\ pc = cell
    /\ IF result.raised
       THEN scores' = scores /\ pc' = "error"
       ELSE scores' = (cell :> result) @@ scores /\ pc' = next
    /\ UNCHANGED <<earlier, tokenizer_vars, cv, example_vars, np_random, data, X, y, split_vars,
                   count_vars, model, tf_vars>>

\* The cells at lines 729, 750, 771 and 797, on y_pred.
Cell729 == Evaluate("cell_729", accuracy_score(values(y_test), y_pred), "cell_750")
Cell750 == Evaluate("cell_750", precision_score(values(y_test), y_pred), "cell_771")
Cell771 == Evaluate("cell_771", recall_score(values(y_test), y_pred), "cell_797")
Cell797 == Evaluate("cell_797", classification_report(values(y_test), y_pred), "cell_844")

\* The cell at line 844: tfidf_vector = TfidfVectorizer(tokenizer=
\* spacy_tokenizer)
Cell844 ==
    /\ pc = "cell_844"
    /\ tfidf_vector' = [made |-> TRUE, fitted |-> FALSE, vocabulary_ |-> <<>>,
                        idf_ |-> <<>>]
    /\ pc' = "cell_854"
    /\ UNCHANGED <<earlier, tokenizer_vars, cv, example_vars, np_random, data, X, y, split_vars,
                   count_vars, model, scores, X_train_vectors_tf, X_test_vectors_tf,
                   y_pred_tf>>

\* The cell at line 854: vectors = tfidf_vector.fit_transform(sentences)
\* .toarray()
Cell854 ==
    /\ pc = "cell_854"
    /\ LET call == tfidf_fit_transform(tfidf_vector, sentences, globals)
       IN  /\ stop_words' = call.globals.stop_words
           /\ punctuations' = call.globals.punctuations
           /\ IF call.ok
              THEN /\ tfidf_vector' = call.vectorizer
                   /\ vectors' = call.matrix
                   /\ pc' = "cell_968"
              ELSE /\ UNCHANGED <<tfidf_vector, vectors>>
                   /\ pc' = "error"
    /\ UNCHANGED <<earlier, called, repeated, sentence, doc, lemmas, mytokens, cv, sentences,
                   np_random, data, X, y, split_vars, count_vars, model, scores,
                   X_train_vectors_tf, X_test_vectors_tf, y_pred_tf>>

\* Line 968: X_train_vectors_tf = tfidf_vector.fit_transform(X_train)
Cell968 ==
    /\ pc = "cell_968"
    /\ LET call == tfidf_fit_transform(tfidf_vector, values(X_train), globals)
       IN  /\ stop_words' = call.globals.stop_words
           /\ punctuations' = call.globals.punctuations
           /\ IF call.ok
              THEN /\ tfidf_vector' = call.vectorizer
                   /\ X_train_vectors_tf' = call.matrix
                   /\ pc' = "cell_969"
              ELSE /\ UNCHANGED <<tfidf_vector, X_train_vectors_tf>>
                   /\ pc' = "error"
    /\ UNCHANGED <<earlier, called, repeated, sentence, doc, lemmas, mytokens, cv, example_vars,
                   np_random, data, X, y, split_vars, count_vars, model, scores,
                   X_test_vectors_tf, y_pred_tf>>

\* Line 969, in the same cell: X_test_vectors_tf = tfidf_vector.transform(
\* X_test)
Cell969 ==
    /\ pc = "cell_969"
    /\ LET call == tfidf_transform(tfidf_vector, values(X_test), globals)
       IN  /\ stop_words' = call.globals.stop_words
           /\ punctuations' = call.globals.punctuations
           /\ tfidf_vector' = call.vectorizer
           /\ X_test_vectors_tf' = call.matrix
    /\ pc' = "cell_1000"
    /\ UNCHANGED <<earlier, called, repeated, sentence, doc, lemmas, mytokens, cv, example_vars,
                   np_random, data, X, y, split_vars, count_vars, model, scores,
                   X_train_vectors_tf, y_pred_tf>>

\* The cell at line 1000: model = LogisticRegression()
Cell1000 ==
    /\ pc = "cell_1000"
    /\ model' = LogisticRegression
    /\ pc' = "cell_1021"
    /\ UNCHANGED <<earlier, tokenizer_vars, cv, example_vars, np_random, data, X, y, split_vars,
                   count_vars, scores, tf_vars>>

\* The cell at line 1021: model.fit(X_train_vectors_tf, y_train)
Cell1021 ==
    /\ pc = "cell_1021"
    /\ LET call == fit(model, X_train_vectors_tf, values(y_train))
       IN  IF call.ok
           THEN model' = call.estimator /\ pc' = "cell_1031"
           ELSE model' = model /\ pc' = "error"
    /\ UNCHANGED <<earlier, tokenizer_vars, cv, example_vars, np_random, data, X, y, split_vars,
                   count_vars, scores, tf_vars>>

\* The cell at line 1031: y_pred_tf = model.predict(X_test_vectors_tf)
Cell1031 ==
    /\ pc = "cell_1031"
    /\ IF predict_returns(model, X_test_vectors_tf)
       THEN /\ y_pred_tf' \in [DOMAIN X_test_vectors_tf -> {0, 1}]
            /\ pc' = "cell_1052"
       ELSE /\ y_pred_tf' = y_pred_tf
            /\ pc' = "error"
    /\ UNCHANGED <<earlier, tokenizer_vars, cv, example_vars, np_random, data, X, y, split_vars,
                   count_vars, model, scores, tfidf_vector, X_train_vectors_tf,
                   X_test_vectors_tf>>

\* The cells at lines 1052, 1073, 1094 and 1120, on y_pred_tf.
Cell1052 == Evaluate("cell_1052", accuracy_score(values(y_test), y_pred_tf), "cell_1073")
Cell1073 == Evaluate("cell_1073", precision_score(values(y_test), y_pred_tf), "cell_1094")
Cell1094 == Evaluate("cell_1094", recall_score(values(y_test), y_pred_tf), "cell_1120")
Cell1120 == Evaluate("cell_1120", classification_report(values(y_test), y_pred_tf), "done")

RunNext ==
    \/ Cell77 \/ Cell97 \/ Cell368 \/ Cell397 \/ Cell418 \/ Cell528 \/ Cell553
    \/ Cell565 \/ Cell627 \/ Cell628 \/ Cell697 \/ Cell708 \/ Cell729 \/ Cell750
    \/ Cell771 \/ Cell797 \/ Cell844 \/ Cell854 \/ Cell968 \/ Cell969 \/ Cell1000
    \/ Cell1021 \/ Cell1031 \/ Cell1052 \/ Cell1073 \/ Cell1094 \/ Cell1120

RunSpec == RunInit /\ [][RunNext]_vars

\* ------------------------------------------------------ a second run
\* The kernel is restarted after the last cell, to run all cells from the
\* top again: every name is gone, the module-level objects are built anew;
\* the file and the split of the run that ended are remembered.
Restart ==
    /\ pc = "done"
    /\ earlier' = [bound |-> TRUE, data |-> data, X |-> X, X_train |-> X_train,
                   X_test |-> X_test, y_train |-> y_train, y_test |-> y_test]
    /\ np_random' = [seeded |-> FALSE, seed |-> 0, draws |-> 0]
    /\ data' = <<>>
    /\ X' = <<>>
    /\ y' = <<>>
    /\ X_train' = <<>>
    /\ X_test' = <<>>
    /\ y_train' = <<>>
    /\ y_test' = <<>>
    /\ X_train_vetcors' = <<>>
    /\ X_test_vectors' = <<>>
    /\ model' = [made |-> FALSE, fitted |-> FALSE, n_features_in_ |-> 0, fit_X |-> <<>>]
    /\ y_pred' = <<>>
    /\ scores' = <<>>
    /\ tfidf_vector' = [made |-> FALSE, fitted |-> FALSE, vocabulary_ |-> <<>>,
                        idf_ |-> <<>>]
    /\ X_train_vectors_tf' = <<>>
    /\ X_test_vectors_tf' = <<>>
    /\ y_pred_tf' = <<>>
    /\ stop_words' = nlp_Defaults_stop_words
    /\ punctuations' = string_punctuation
    /\ pc' = "cell_77"
    /\ called' = FALSE
    /\ repeated' = FALSE
    /\ sentence' = <<>>
    /\ doc' = <<>>
    /\ lemmas' = <<>>
    /\ mytokens' = <<>>
    /\ cv' = [made |-> FALSE, fitted |-> FALSE, vocabulary_ |-> <<>>]
    /\ sentences' = <<>>
    /\ vectors' = <<>>

RerunNext == RunNext \/ Restart

RerunSpec == RunInit /\ [][RerunNext]_vars

\* ---------------------------------------------------------------- claims
\* A token that is one character of string.punctuation.
is_punctuation_char(token) == Len(token) = 1 /\ token[1] \in Range(punctuations)

\* A non-empty token made of punctuation characters only.
all_punctuation(token) ==
    token # <<>> /\ \A i \in DOMAIN token : token[i] \in Range(punctuations)

\* A non-empty token made of whitespace only.
all_whitespace(token) == token # <<>> /\ \A i \in DOMAIN token : is_space(token[i])

\* The terms of the fitted vocabulary.
vocabulary_terms == DOMAIN cv.vocabulary_

\* C1: the list a call of spacy_tokenizer returns, and the vocabulary a fit
\* builds from its lists, hold no member of stop_words and no single
\* character of string.punctuation.
C1_NoStopWordNoPunctuationChar ==
    /\ called =>
         \A k \in DOMAIN mytokens :
             mytokens[k] \notin stop_words /\ ~is_punctuation_char(mytokens[k])
    /\ \A t \in vocabulary_terms : t \notin stop_words /\ ~is_punctuation_char(t)

\* A call whose doc holds a stop word and a punctuation character, and which
\* returns a non-empty list.
C1_Witness ==
    /\ called
    /\ \E k \in DOMAIN lemmas : lemmas[k] \in stop_words
    /\ \E k \in DOMAIN lemmas : is_punctuation_char(lemmas[k])
    /\ mytokens # <<>>

\* C2 as stated: a token is dropped if and only if its lower-cased lemma is
\* a stop word or exactly one punctuation character; every other token is
\* kept.
C2_DropsOnlyStopWordOrPunctuationChar ==
    called =>
        \A k \in DOMAIN lemmas :
            (lemmas[k] \notin Range(mytokens))
                <=> (lemmas[k] \in stop_words \/ is_punctuation_char(lemmas[k]))

\* C2, amended: a token is dropped if and only if its lower-cased lemma is a
\* stop word or a contiguous substring of the str punctuations (one
\* punctuation character, a run such as "./", or the empty str); every other
\* token is kept.
C2_DropsStopWordOrPunctuationSubstring ==
    called =>
        \A k \in DOMAIN lemmas :
            (lemmas[k] \notin Range(mytokens))
                <=> (lemmas[k] \in stop_words \/ str_in(lemmas[k], punctuations))

\* A call whose doc holds a token of several punctuation characters that is
\* a substring of punctuations, dropped, beside a token that is kept.
C2_Witness ==
    /\ called
    /\ \E k \in DOMAIN lemmas :
           /\ Len(lemmas[k]) > 1
           /\ str_in(lemmas[k], punctuations)
           /\ lemmas[k] \notin Range(mytokens)
    /\ mytokens # <<>>

\* C3: no token made of punctuation characters only, and no token made of
\* whitespace only, is in the list spacy_tokenizer returns.
C3_NoPunctuationOrWhitespaceToken ==
    called =>
        \A k \in DOMAIN mytokens :
            ~all_punctuation(mytokens[k]) /\ ~all_whitespace(mytokens[k])

\* a is b with some of its elements removed, the others in their order.
RECURSIVE is_subsequence(_, _)
is_subsequence(a, b) ==
    IF a = <<>> THEN TRUE
    ELSE IF b = <<>> THEN FALSE
    ELSE IF Head(a) = Head(b) THEN is_subsequence(Tail(a), Tail(b))
    ELSE is_subsequence(a, Tail(b))

\* C4: the returned list is the sequence of the lower-cased lemmas of the
\* doc's tokens with some elements removed: the others keep their order, a
\* token that is kept is kept once per occurrence, and nothing is added.
C4_OrderPreservingSubsequence ==
    called =>
        /\ Len(lemmas) = Len(doc)
        /\ \A k \in DOMAIN doc : lemmas[k] = lower(doc[k].lemma_)
        /\ is_subsequence(mytokens, lemmas)
        /\ \A t \in Range(mytokens) : count_of(t, mytokens) = count_of(t, lemmas)

\* A call that drops a token and returns a token twice, with another token
\* between the two occurrences.
C4_Witness ==
    /\ called
    /\ Len(mytokens) < Len(lemmas)
    /\ \E i, j, k \in DOMAIN mytokens :
           i < j /\ j < k /\ mytokens[i] = mytokens[k] /\ mytokens[j] # mytokens[i]

\* C5: every token of the returned list is its own lower-casing, proper
\* nouns included.
C5_OutputLowerCase ==
    called =>
        \A k \in DOMAIN mytokens :
            /\ lower(mytokens[k]) = mytokens[k]
            /\ \A i \in DOMAIN mytokens[k] : mytokens[k][i] \notin 65..90

\* A call whose doc holds a token with an upper-case lemma (a proper noun)
\* that is kept, lower-cased.
C5_Witness ==
    /\ called
    /\ \E k \in DOMAIN doc :
           /\ lower(doc[k].lemma_) # doc[k].lemma_
           /\ lower(doc[k].lemma_) \in Range(mytokens)

\* C6: spacy_tokenizer applied to the empty str returns the empty list.
C6_EmptyStringEmptyList == (called /\ sentence = <<>>) => mytokens = <<>>

\* A call with the empty str.
C6_Witness == called /\ sentence = <<>> /\ doc = <<>>

\* C7: 'I am eating apple, I like apple', with or without the trailing
\* double quote of the cell at line 368, gives ['eat', 'apple', 'like',
\* 'apple']: "I" and "am" are dropped as stop words, "," and the quote as
\* punctuation, "eating" becomes "eat", both "apple" are kept.
C7_EatAppleLikeApple ==
    (called /\ sentence \in {Sentence368, Sentence1}) =>
        /\ mytokens = <<Str("eat"), Str("apple"), Str("like"), Str("apple")>>
        /\ \A k \in DOMAIN doc :
               /\ doc[k].text \in {Str("I"), Str("am")} => lemmas[k] \in stop_words
               /\ doc[k].text \in {Str(","), Str("\"")} =>
                      is_punctuation_char(lemmas[k]) /\ lemmas[k] \notin stop_words
               /\ doc[k].text = Str("eating") => lemmas[k] = Str("eat")

\* The cell at line 368 has run, and its call is the latest.
C7_Witness ==
    /\ called
    /\ pc = "cell_397"
    /\ sentence = Sentence368
    /\ \E k \in DOMAIN doc : doc[k].text = Str("\"")

\* A str that is one token, lower-case and its own lemma.
normalized(t) ==
    LET d == nlp(t)
    IN  Len(d) = 1 /\ d[1].text = t /\ d[1].lemma_ = t /\ lower(t) = t

\* C8 as stated: a normalized single-token str that is neither a stop word
\* nor a punctuation character is returned as the one-element list of
\* itself; and each token of a returned list, tokenized on its own, is
\* returned unchanged.
C8_RetokenizeUnlessStopWordOrPunctuationChar ==
    called =>
        /\ (/\ normalized(sentence)
            /\ sentence \notin stop_words
            /\ ~is_punctuation_char(sentence)) => mytokens = <<sentence>>
        /\ \A k \in DOMAIN mytokens :
               spacy_tokenizer(mytokens[k], globals) = <<mytokens[k]>>

\* C8, amended: a normalized single-token str that is neither a stop word
\* nor a substring of punctuations is returned as the one-element list of
\* itself; and each token of a returned list that is itself such a
\* normalized single-token str, tokenized on its own, is returned unchanged.
C8_RetokenizeUnlessStopWordOrPunctuationSubstring ==
    called =>
        /\ (/\ normalized(sentence)
            /\ sentence \notin stop_words
            /\ ~str_in(sentence, punctuations)) => mytokens = <<sentence>>
        /\ \A k \in DOMAIN mytokens :
               normalized(mytokens[k]) =>
                   spacy_tokenizer(mytokens[k], globals) = <<mytokens[k]>>

\* A call with a normalized single-token str that is returned as it is.
C8_Witness ==
    /\ called
    /\ normalized(sentence)
    /\ sentence \notin stop_words
    /\ ~str_in(sentence, punctuations)
    /\ mytokens = <<sentence>>

\* C9: a direct call with the argument of the direct call before it,
\* whatever cells ran in between, returns the same list.
C9_SameInputSameOutput ==
    [][(called /\ called' /\ sentence' = sentence) => mytokens' = mytokens]_vars

\* A call repeated with the same argument after the vectorizer was fitted.
C9_Witness == called /\ repeated /\ pc = "cell_528" /\ mytokens # <<>>

\* C10: the count vectorizer fitted on the two sentences gives a matrix of
\* 2 rows and 5 columns, the columns apple, cricket, eat, like, play at 0..4,
\* row 0 = [2,0,1,1,0] and row 1 = [0,1,0,0,1].
C10_CountMatrixOfSentences ==
    pc = "cell_528" =>
        /\ cv.vocabulary_ =
               (Str("apple") :> 0) @@ (Str("cricket") :> 1) @@ (Str("eat") :> 2) @@
               (Str("like") :> 3) @@ (Str("play") :> 4)
        /\ vectors = << <<2, 0, 1, 1, 0>>, <<0, 1, 0, 0, 1>> >>

\* The cell at line 418 has run on the two sentences.
C10_Witness ==
    /\ pc = "cell_528"
    /\ cv.fitted
    /\ sentences = <<Sentence1, Sentence2>>
    /\ Len(vectors) = 2

\* A document as the corpus gives it.
as_given(text) == text

\* Every cell of the matrix is the number of occurrences of its term in
\* spacy_tokenizer(text_of(document)).
counts_tokens_of(matrix, vocabulary, series, text_of(_)) ==
    \A d \in DOMAIN matrix : \A t \in DOMAIN vocabulary :
        matrix[d][vocabulary[t] + 1] =
            count_of(t, spacy_tokenizer(text_of(series[d].value), globals))

\* Every row of the matrix sums to the length of
\* spacy_tokenizer(text_of(document)).
rows_sum_to_length(matrix, series, text_of(_)) ==
    \A d \in DOMAIN matrix :
        sum(matrix[d]) = Len(spacy_tokenizer(text_of(series[d].value), globals))

\* C11 as stated: every cell of the count matrices of X_train and X_test is
\* the number of occurrences of its term in spacy_tokenizer applied to the
\* document as given, and every row of the fit corpus sums to the length of
\* that token list.
C11_CountsTokensOfRawText ==
    Len(X_test_vectors) > 0 =>
        /\ counts_tokens_of(X_train_vetcors, cv.vocabulary_, X_train, as_given)
        /\ counts_tokens_of(X_test_vectors, cv.vocabulary_, X_test, as_given)
        /\ rows_sum_to_length(X_train_vetcors, X_train, as_given)

\* C11: every cell of the count matrices of X_train and X_test is the number
\* of occurrences of its term in spacy_tokenizer applied to the lower-cased
\* document (the vectorizer lower-cases each document before the tokenizer
\* runs), and every row of the fit corpus sums to the length of that token
\* list.
C11_CountsTokensOfLowerCasedText ==
    Len(X_test_vectors) > 0 =>
        /\ counts_tokens_of(X_train_vetcors, cv.vocabulary_, X_train, lower)
        /\ counts_tokens_of(X_test_vectors, cv.vocabulary_, X_test, lower)
        /\ rows_sum_to_length(X_train_vetcors, X_train, lower)

\* Both matrices are built, a term occurs twice in a document, and a
\* document's tokens change when it is lower-cased first.
C11_Witness ==
    /\ Len(X_test_vectors) > 0
    /\ \E d \in DOMAIN X_train_vetcors : \E j \in DOMAIN X_train_vetcors[d] :
           X_train_vetcors[d][j] = 2
    /\ \E d \in DOMAIN X_train :
           spacy_tokenizer(X_train[d].value, globals)
               # spacy_tokenizer(lower(X_train[d].value), globals)

\* The tokens the vectorizers see in a document.
analyzed(text) == spacy_tokenizer(lower(text), globals)

\* The tokens of a token list that are terms of the vocabulary.
known(toks, vocabulary) == SelectSeq(toks, LAMBDA t : t \in DOMAIN vocabulary)

\* C12: cv.transform(X_test) and tfidf_vector.transform(X_test) return
\* without an error and leave the vocabulary as the fit left it; every row
\* of the test matrix has as many columns as the train matrix, and only the
\* tokens that are terms of the vocabulary are counted in it (a token the
\* fit has not seen is in no cell).
C12_TransformKeepsVocabulary ==
    [][/\ pc = "cell_628" =>
            /\ pc' # "error"
            /\ cv'.vocabulary_ = cv.vocabulary_
            /\ Len(X_test_vectors') = Len(X_test)
            /\ \A d \in DOMAIN X_test_vectors' :
                /\ Len(X_test_vectors'[d]) = n_columns(X_train_vetcors)
                /\ sum(X_test_vectors'[d])
                       = Len(known(analyzed(X_test[d].value), cv.vocabulary_))
       /\ pc = "cell_969" =>
            /\ pc' # "error"
            /\ tfidf_vector'.vocabulary_ = tfidf_vector.vocabulary_
            /\ Len(X_test_vectors_tf') = Len(X_test)
            /\ \A d \in DOMAIN X_test_vectors_tf' :
                /\ Len(X_test_vectors_tf'[d]) = n_columns(X_train_vectors_tf)
                /\ \A t \in DOMAIN tfidf_vector.vocabulary_ :
                       (X_test_vectors_tf'[d][tfidf_vector.vocabulary_[t] + 1].num # 0)
                           <=> (count_of(t, analyzed(X_test[d].value)) > 0)]_vars

\* Both transforms have run on a test corpus with a token that is no term
\* of the vocabulary and a token that is.
C12_Witness ==
    /\ pc = "cell_1000"
    /\ \E d \in DOMAIN X_test : \E k \in DOMAIN analyzed(X_test[d].value) :
           /\ analyzed(X_test[d].value)[k] \notin DOMAIN cv.vocabulary_
           /\ analyzed(X_test[d].value)[k] \notin DOMAIN tfidf_vector.vocabulary_
    /\ \E d \in DOMAIN X_test : sum(X_test_vectors[d]) > 0

\* C13: a fit discards the vocabulary of the fit before it: after
\* cv.fit_transform(X_train) the terms of cv are exactly the tokens of the
\* documents of X_train, so a term of the example sentences that no
\* document of X_train has is no longer a column; the same holds for
\* tfidf_vector after tfidf_vector.fit_transform(X_train).
C13_RefitDiscardsVocabulary ==
    LET X_train_terms == UNION {Range(analyzed(X_train[d].value)) : d \in DOMAIN X_train}
        sentences_terms == UNION {Range(analyzed(sentences[d])) : d \in DOMAIN sentences}
    IN  /\ Len(X_train_vetcors) > 0 =>
            /\ DOMAIN cv.vocabulary_ = X_train_terms
            /\ \A t \in sentences_terms \ X_train_terms : t \notin DOMAIN cv.vocabulary_
        /\ Len(X_train_vectors_tf) > 0 =>
            /\ DOMAIN tfidf_vector.vocabulary_ = X_train_terms
            /\ \A t \in sentences_terms \ X_train_terms :
                   t \notin DOMAIN tfidf_vector.vocabulary_

\* Both vectorizers were fitted on the sentences and then on an X_train
\* that lacks a term of the sentences and has a term of its own.
C13_Witness ==
    LET X_train_terms == UNION {Range(analyzed(X_train[d].value)) : d \in DOMAIN X_train}
        sentences_terms == UNION {Range(analyzed(sentences[d])) : d \in DOMAIN sentences}
    IN  /\ Len(X_train_vectors_tf) > 0
        /\ Len(X_train_vetcors) > 0
        /\ sentences_terms \ X_train_terms # {}
        /\ X_train_terms \ sentences_terms # {}
        /\ Str("eat") \notin DOMAIN cv.vocabulary_

\* The row of the count matrix for one document.
count_row(text, vocabulary) ==
    [j \in DOMAIN names_of(vocabulary) |-> count_of(names_of(vocabulary)[j], analyzed(text))]

\* C14: every matrix has one row per document of its corpus, in the order
\* of the corpus: the count and the TF-IDF matrix of X_train have as many
\* rows as X_train has documents and y_train has labels, the two test
\* matrices as many as X_test, and row d is the row of document d.
C14_OneRowPerDocument ==
    /\ Len(X_train_vetcors) > 0 =>
        /\ Len(X_train_vetcors) = Len(X_train)
        /\ Len(X_train_vetcors) = Len(y_train)
        /\ \A d \in DOMAIN X_train :
               X_train_vetcors[d] = count_row(X_train[d].value, cv.vocabulary_)
    /\ Len(X_test_vectors) > 0 =>
        /\ Len(X_test_vectors) = Len(X_test)
        /\ \A d \in DOMAIN X_test :
               X_test_vectors[d] = count_row(X_test[d].value, cv.vocabulary_)
    /\ Len(X_train_vectors_tf) > 0 =>
        /\ Len(X_train_vectors_tf) = Len(X_train)
        /\ Len(X_train_vectors_tf) = Len(y_train)
        /\ \A d \in DOMAIN X_train :
               X_train_vectors_tf[d] =
                   l2_normalized([j \in DOMAIN tfidf_vector.idf_ |->
                       count_row(X_train[d].value, tfidf_vector.vocabulary_)[j]
                           * tfidf_vector.idf_[j]])
    /\ Len(X_test_vectors_tf) > 0 =>
        /\ Len(X_test_vectors_tf) = Len(X_test)
        /\ \A d \in DOMAIN X_test :
               X_test_vectors_tf[d] =
                   l2_normalized([j \in DOMAIN tfidf_vector.idf_ |->
                       count_row(X_test[d].value, tfidf_vector.vocabulary_)[j]
                           * tfidf_vector.idf_[j]])

\* The four matrices are built, from an X_train with a document that has
\* no token before a document that has some.
C14_Witness ==
    /\ Len(X_test_vectors_tf) > 0
    /\ Len(X_train_vetcors) = Len(X_train)
    /\ \E d \in DOMAIN X_train : \E e \in DOMAIN X_train :
           /\ d < e
           /\ analyzed(X_train[d].value) = <<>>
           /\ analyzed(X_train[e].value) # <<>>

\* The indices of a vocabulary are unique, are exactly 0..n-1, and follow
\* the sorted order of the terms.
sorted_index(vocabulary) ==
    /\ \A t \in DOMAIN vocabulary : \A u \in DOMAIN vocabulary :
           str_lt(t, u) <=> vocabulary[t] < vocabulary[u]
    /\ {vocabulary[t] : t \in DOMAIN vocabulary}
           = 0..(Cardinality(DOMAIN vocabulary) - 1)

\* C15: after every fit the vocabulary gives each term its own index, the
\* indices are exactly 0..n-1 and follow the sorted order of the terms;
\* after the fit on the two sentences, whose tokens are first seen in the
\* order eat, apple, like, play, cricket, these have the indices 2, 0, 3,
\* 4, 1.
C15_VocabularySortedIndex ==
    /\ cv.fitted => sorted_index(cv.vocabulary_)
    /\ tfidf_vector.fitted => sorted_index(tfidf_vector.vocabulary_)
    /\ pc = "cell_528" =>
        LET seen == unique(flatten([d \in DOMAIN sentences |-> analyzed(sentences[d])]))
        IN  /\ seen = <<Str("eat"), Str("apple"), Str("like"), Str("play"),
                        Str("cricket")>>
            /\ [k \in DOMAIN seen |-> cv.vocabulary_[seen[k]]] = <<2, 0, 3, 4, 1>>

\* cv was fitted on the sentences and then on X_train, whose first-seen
\* order is not the sorted order, and tfidf_vector is fitted.
C15_Witness ==
    /\ tfidf_vector.fitted
    /\ Len(X_train_vetcors) > 0
    /\ Cardinality(DOMAIN cv.vocabulary_) >= 3
    /\ LET seen == unique(flatten([d \in DOMAIN X_train |-> analyzed(X_train[d].value)]))
       IN  seen # names_of(cv.vocabulary_)

\* A squared weight is the fraction n/d.
is_fraction(weight, n, d) == weight.num * d = n * weight.den

\* The squared weights of a row sum to 1, unless the row is all zeros.
unit_or_zero(row) ==
    (\E j \in DOMAIN row : row[j].num # 0) =>
        sum([j \in DOMAIN row |-> row[j].num]) = row[1].den

\* The cells of a TF-IDF matrix that are not zero are those of the count
\* matrix.
same_support(tfidf, counts) ==
    /\ DOMAIN tfidf = DOMAIN counts
    /\ \A d \in DOMAIN tfidf :
        /\ DOMAIN tfidf[d] = DOMAIN counts[d]
        /\ \A j \in DOMAIN tfidf[d] : (tfidf[d][j].num # 0) <=> (counts[d][j] # 0)

\* C16: tfidf_vector fitted on X_train has the vocabulary, column for
\* column, of cv fitted on X_train; a cell of a TF-IDF matrix is non-zero
\* exactly when the cell of the count matrix is; the squared weights of
\* every TF-IDF row with a non-zero cell sum to 1; and for the two
\* sentences the squared weights are [4/6, 0, 1/6, 1/6, 0] and
\* [0, 1/2, 0, 0, 1/2], in the columns apple, cricket, eat, like, play.
C16_TfidfRows ==
    /\ Len(X_train_vectors_tf) > 0 =>
        /\ tfidf_vector.vocabulary_ = cv.vocabulary_
        /\ same_support(X_train_vectors_tf, X_train_vetcors)
        /\ \A d \in DOMAIN X_train_vectors_tf : unit_or_zero(X_train_vectors_tf[d])
    /\ Len(X_test_vectors_tf) > 0 =>
        /\ same_support(X_test_vectors_tf, X_test_vectors)
        /\ \A d \in DOMAIN X_test_vectors_tf : unit_or_zero(X_test_vectors_tf[d])
    /\ tfidf_vector.fitted =>
        /\ Len(vectors) = 2
        /\ \A d \in DOMAIN vectors : unit_or_zero(vectors[d])
        /\ is_fraction(vectors[1][1], 4, 6) /\ is_fraction(vectors[1][2], 0, 1)
        /\ is_fraction(vectors[1][3], 1, 6) /\ is_fraction(vectors[1][4], 1, 6)
        /\ is_fraction(vectors[1][5], 0, 1)
        /\ is_fraction(vectors[2][1], 0, 1) /\ is_fraction(vectors[2][2], 1, 2)
        /\ is_fraction(vectors[2][3], 0, 1) /\ is_fraction(vectors[2][4], 0, 1)
        /\ is_fraction(vectors[2][5], 1, 2)
    /\ pc = "cell_968" =>
        tfidf_vector.vocabulary_ =
            (Str("apple") :> 0) @@ (Str("cricket") :> 1) @@ (Str("eat") :> 2) @@
            (Str("like") :> 3) @@ (Str("play") :> 4)

\* The TF-IDF matrices of the sentences, of X_train and of X_test are
\* built; a train row has two terms of unequal weight, and a test row is
\* all zeros.
C16_Witness ==
    /\ Len(X_test_vectors_tf) > 0
    /\ Len(vectors) = 2
    /\ \E d \in DOMAIN X_train_vectors_tf : \E j \in DOMAIN X_train_vectors_tf[d] :
       \E k \in DOMAIN X_train_vectors_tf[d] :
           /\ X_train_vectors_tf[d][j].num # 0
           /\ X_train_vectors_tf[d][k].num > X_train_vectors_tf[d][j].num
    /\ \E d \in DOMAIN X_test_vectors_tf : \A j \in DOMAIN X_test_vectors_tf[d] :
           X_test_vectors_tf[d][j].num = 0

\* A label sequence without the positive label 1.
no_positive(labels) == \A i \in DOMAIN labels : labels[i] # 1

\* The evaluator cell returns: the value it displays is 0 and the run goes
\* on to the cell next.
displays_zero(cell, next) ==
    /\ pc' = next
    /\ cell \in DOMAIN scores'
    /\ scores'[cell].num = 0

\* The report cell returns, with F1, precision and recall 0 in the row of
\* the positive class when the report has that row.
reports_zero(cell, next) ==
    /\ pc' = next
    /\ cell \in DOMAIN scores'
    /\ 1 \in DOMAIN scores'[cell].rows =>
        /\ scores'[cell].rows[1].f1.num = 0
        /\ scores'[cell].rows[1].precision.num = 0
        /\ scores'[cell].rows[1].recall.num = 0

\* C17: when the predictions hold no positive label, or the true labels
\* hold none, precision_score, recall_score and the precision, recall and
\* F1 of the positive class in classification_report are 0, no evaluator
\* raises, and the run goes on to the cell after each of them.
C17_ZeroWithoutPositive ==
    [][/\ (no_positive(y_pred) \/ no_positive(values(y_test))) =>
            /\ pc = "cell_750" => displays_zero("cell_750", "cell_771")
            /\ pc = "cell_771" => displays_zero("cell_771", "cell_797")
            /\ pc = "cell_797" => reports_zero("cell_797", "cell_844")
       /\ (no_positive(y_pred_tf) \/ no_positive(values(y_test))) =>
            /\ pc = "cell_1073" => displays_zero("cell_1073", "cell_1094")
            /\ pc = "cell_1094" => displays_zero("cell_1094", "cell_1120")
            /\ pc = "cell_1120" => reports_zero("cell_1120", "done")]_vars

\* The evaluators of both stages have run on predictions without a positive
\* label against true labels with one.
C17_Witness ==
    /\ pc = "done"
    /\ no_positive(y_pred) /\ no_positive(y_pred_tf)
    /\ ~no_positive(values(y_test))
    /\ 1 \in DOMAIN scores["cell_797"].rows
    /\ scores["cell_750"].num = 0 /\ scores["cell_1094"].num = 0

\* The evaluators have run on true labels without a positive label against
\* predictions with one.
C17_WitnessNoTruePositive ==
    /\ pc = "done"
    /\ no_positive(values(y_test))
    /\ ~no_positive(y_pred) /\ ~no_positive(y_pred_tf)
    /\ scores["cell_771"].num = 0

\* The cells the run has not come to while it is at the load.
before_load == pc \in {"cell_77", "cell_97"}

\* After a failed load the run has stopped, and nothing after line 97 has a
\* value: no tokenizer call was made, no vectorizer built, no name bound.
load_failure_stops ==
    (~before_load /\ data = <<>>) =>
        /\ pc = "error"
        /\ ~called /\ ~cv.made /\ sentences = <<>> /\ vectors = <<>>
        /\ X = <<>> /\ y = <<>>
        /\ X_train = <<>> /\ X_test = <<>> /\ y_train = <<>> /\ y_test = <<>>
        /\ X_train_vetcors = <<>> /\ X_test_vectors = <<>>
        /\ ~model.made /\ y_pred = <<>> /\ scores = <<>>
        /\ ~tfidf_vector.made /\ X_train_vectors_tf = <<>> /\ X_test_vectors_tf = <<>>
        /\ y_pred_tf = <<>>

\* After a failed fit (model is bound and not fitted, past the cell that
\* fits it) the run has stopped, and nothing after the fit has a value: no
\* predictions of that model, no score of them.
fit_failure_stops ==
    (model.made /\ ~model.fitted /\ pc # "cell_1021") =>
        /\ pc = "error"
        /\ y_pred_tf = <<>>
        /\ ~tfidf_vector.made =>
            /\ y_pred = <<>> /\ scores = <<>>
            /\ X_train_vectors_tf = <<>> /\ X_test_vectors_tf = <<>>
        /\ tfidf_vector.made =>
            DOMAIN scores = {"cell_729", "cell_750", "cell_771", "cell_797"}

\* C18: there is no recovery path: a step of the run never starts from a
\* stopped run, and after a failed data load or a failed model fit the run
\* has stopped at that cell with no later value produced.
C18_FailureStopsRun ==
    [][/\ pc # "error"
       /\ load_failure_stops'
       /\ fit_failure_stops']_vars

\* The run stopped at the first fit, on a train set of one class.
C18_Witness ==
    /\ pc = "error"
    /\ model.made /\ ~model.fitted
    /\ Len(X_train_vetcors) > 0
    /\ no_positive(values(y_train))

\* The run stopped at the load.
C18_WitnessLoad == pc = "error" /\ data = <<>> /\ np_random.seeded

\* The row of the TF-IDF matrix for one document.
tfidf_row(text, vectorizer) ==
    l2_normalized([j \in DOMAIN vectorizer.idf_ |->
        count_row(text, vectorizer.vocabulary_)[j] * vectorizer.idf_[j]])

\* The cells whose scores are computed from y_pred.
count_stage_cells == {"cell_729", "cell_750", "cell_771", "cell_797"}

\* C19: at model.predict(X_test_vectors) the model is the one fitted on
\* X_train_vetcors, both matrices are those of cv as it is now, and they
\* have the same number of columns; at model.predict(X_test_vectors_tf) the
\* model is the one fitted on X_train_vectors_tf, both matrices are those of
\* tfidf_vector as it is now, with the same number of columns; each call
\* returns one label per label of y_test; and no cell but the one at line
\* 708 changes y_pred or a score computed from it, so binding model again
\* leaves them as they are.
C19_PredictOnMatchingMatrix ==
    [][/\ pc = "cell_708" =>
            /\ pc' = "cell_729"
            /\ model.fitted /\ model.fit_X = X_train_vetcors
            /\ \A d \in DOMAIN X_train :
                   X_train_vetcors[d] = count_row(X_train[d].value, cv.vocabulary_)
            /\ \A d \in DOMAIN X_test :
                   X_test_vectors[d] = count_row(X_test[d].value, cv.vocabulary_)
            /\ n_columns(X_test_vectors) = n_columns(model.fit_X)
            /\ Len(y_pred') = Len(y_test)
       /\ pc = "cell_1031" =>
            /\ pc' = "cell_1052"
            /\ model.fitted /\ model.fit_X = X_train_vectors_tf
            /\ \A d \in DOMAIN X_train :
                   X_train_vectors_tf[d] = tfidf_row(X_train[d].value, tfidf_vector)
            /\ \A d \in DOMAIN X_test :
                   X_test_vectors_tf[d] = tfidf_row(X_test[d].value, tfidf_vector)
            /\ n_columns(X_test_vectors_tf) = n_columns(model.fit_X)
            /\ Len(y_pred_tf') = Len(y_test)
       /\ pc # "cell_708" => y_pred' = y_pred
       /\ \A cell \in DOMAIN scores \cap count_stage_cells :
            cell \in DOMAIN scores' /\ scores'[cell] = scores[cell]]_vars

\* Both predictions are made, by two fits of model, and they differ.
C19_Witness ==
    /\ pc = "done"
    /\ Len(y_pred) = Len(y_test) /\ Len(y_pred_tf) = Len(y_test)
    /\ y_pred # y_pred_tf
    /\ model.fit_X = X_train_vectors_tf
    /\ count_stage_cells \subseteq DOMAIN scores

\* The cells that call spacy_tokenizer through a vectorizer.
vectorizer_cells ==
    {"cell_418", "cell_627", "cell_628", "cell_854", "cell_968", "cell_969"}

\* C20: a call of spacy_tokenizer, made directly or by a vectorizer's
\* fit_transform or transform on each document, leaves the set stop_words
\* and the str punctuations as they were, and leaves its input as it was:
\* the argument of a direct call is after the call the text that was
\* analyzed, and the sentences, X_train and X_test are the same lists.
C20_TokenizerCallsLeaveGlobals ==
    [][/\ stop_words' = stop_words
       /\ punctuations' = punctuations
       /\ called' => doc' = nlp(sentence')
       /\ pc \in vectorizer_cells =>
            /\ sentences' = sentences
            /\ X_train' = X_train
            /\ X_test' = X_test]_vars

\* A direct call and the six vectorizer calls have run, and the
\* module-level objects are the ones bound at lines 277 and 296.
C20_Witness ==
    /\ pc = "cell_1000"
    /\ called
    /\ mytokens # <<>>
    /\ Len(X_test_vectors_tf) > 0
    /\ stop_words = nlp_Defaults_stop_words
    /\ punctuations = string_punctuation

\* The index labels of a Series.
indices(series) == {series[i].index : i \in DOMAIN series}

\* Each row of a part of the split is a row of the file, and its text and
\* its label are those of that row.
paired(texts, labels) ==
    /\ Len(texts) = Len(labels)
    /\ \A i \in DOMAIN texts :
        /\ texts[i].index = labels[i].index
        /\ data[texts[i].index + 1].index = texts[i].index
        /\ data[texts[i].index + 1].comment_text = texts[i].value
        /\ data[texts[i].index + 1].toxic = labels[i].value

\* The tokens the vectorizers see in the documents of X_train.
X_train_tokens == [d \in DOMAIN X_train |-> analyzed(X_train[d].value)]

\* C21: a run of all cells from the top on the file of the run before it
\* gives the 5% subsample and the X_train/X_test split of that run; the
\* rows of X_train and those of X_test are disjoint and together are the
\* rows of the subsample, which keeps what test_size=0.95 leaves of the
\* file; each text has the label of its own row; and each vectorizer, as
\* its fit on X_train leaves it, and each model is fitted on the documents
\* of X_train, none of them a row of X_test.
C21_SplitReproduciblePartition ==
    Len(X_train) > 0 =>
        /\ (earlier.bound /\ data = earlier.data) =>
            /\ X = earlier.X
            /\ X_train = earlier.X_train /\ X_test = earlier.X_test
            /\ y_train = earlier.y_train /\ y_test = earlier.y_test
        /\ indices(X_train) \cap indices(X_test) = {}
        /\ indices(X_train) \cup indices(X_test) = indices(X)
        /\ Len(X_train) + Len(X_test) = Len(X)
        /\ Cardinality(indices(X)) = Len(X)
        /\ Len(X) = Len(data) - (Len(data) * TestPercent553 + 99) \div 100
        /\ paired(X_train, y_train)
        /\ paired(X_test, y_test)
        /\ pc = "cell_628" =>
            /\ DOMAIN cv.vocabulary_ = terms_of(X_train_tokens)
            /\ Len(X_train_vetcors) = Len(X_train)
        /\ pc = "cell_969" =>
            /\ DOMAIN tfidf_vector.vocabulary_ = terms_of(X_train_tokens)
            /\ tfidf_vector.idf_
                   = idf_of(X_train_tokens, names_of(tfidf_vector.vocabulary_))
            /\ Len(X_train_vectors_tf) = Len(X_train)
        /\ model.fitted => Len(model.fit_X) = Len(X_train)

\* A second run on the file of the first has ended with the split of the
\* first, and a document of X_test has the text of a document of X_train.
C21_Witness ==
    /\ pc = "done"
    /\ earlier.bound
    /\ data = earlier.data
    /\ X_train = earlier.X_train
    /\ X_test = earlier.X_test
    /\ model.fitted
    /\ \E d \in DOMAIN X_test : \E e \in DOMAIN X_train :
           X_test[d].value = X_train[e].value
====
